---- MODULE Spec2Model ----
(***************************************************************************)
(* Model of the two Streamlit pages of the repository:                     *)
(*   src/pages/1_app.py     sentiment page: load_dictionary_from_text,     *)
(*                          continuous_sentiment_score,                    *)
(*                          process_sentiment_data                         *)
(*   src/streamlit_app.py   classifier page: classify_text,                *)
(*                          process_dataframe, the session dictionaries    *)
(* Python str values are TLA+ strings; a character is a string of length   *)
(* one.  A table cell is a tagged pair <<tag, payload>>.                   *)
(***************************************************************************)
EXTENDS Integers, Sequences, FiniteSets, TLC

(***************************************************************************)
(* Python str operations used by the two pages.                            *)
(***************************************************************************)
CharAt(s, i) == SubSeq(s, i, i)

UpperChars == "ABCDEFGHIJKLMNOPQRSTUVWXYZ"

LowerChars == "abcdefghijklmnopqrstuvwxyz"

UpperSet == {CharAt(UpperChars, i) : i \in 1..Len(UpperChars)}

LowerOf ==
    [c \in UpperSet |->
        CharAt(LowerChars, CHOOSE i \in 1..Len(UpperChars) : CharAt(UpperChars, i) = c)]

\* c.lower() for one character
LowerChar(c) == IF c \in UpperSet THEN LowerOf[c] ELSE c

RECURSIVE str_lower(_)
\* s.lower()
str_lower(s) ==
    IF s = "" THEN ""
    ELSE LowerChar(CharAt(s, 1)) \o str_lower(SubSeq(s, 2, Len(s)))

\* the characters str.strip() and str.split() treat as whitespace
IsSpace(c) == c \in {" ", "\n", "\t", "\r"}

RECURSIVE str_lstrip(_)
str_lstrip(s) ==
    IF s /= "" /\ IsSpace(CharAt(s, 1)) THEN str_lstrip(SubSeq(s, 2, Len(s))) ELSE s

RECURSIVE str_rstrip(_)
str_rstrip(s) ==
    IF s /= "" /\ IsSpace(CharAt(s, Len(s))) THEN str_rstrip(SubSeq(s, 1, Len(s) - 1)) ELSE s

\* s.strip()
str_strip(s) == str_rstrip(str_lstrip(s))

\* s.find(c) for a one-character c: the first index (1-based) or 0
str_find(s, c) ==
    IF \E i \in 1..Len(s) : CharAt(s, i) = c
    THEN CHOOSE i \in 1..Len(s) : CharAt(s, i) = c /\ \A j \in 1..(i - 1) : CharAt(s, j) /= c
    ELSE 0

RECURSIVE str_split(_, _)
\* s.split(c): every piece between separators, empty pieces kept
str_split(s, c) ==
    LET i == str_find(s, c)
    IN  IF i = 0 THEN <<s>>
        ELSE <<SubSeq(s, 1, i - 1)>> \o str_split(SubSeq(s, i + 1, Len(s)), c)

\* a split at the last separator, s.rsplit(c, 1)
str_rsplit1(s, c) ==
    LET last == IF \E i \in 1..Len(s) : CharAt(s, i) = c
                THEN CHOOSE i \in 1..Len(s) :
                         CharAt(s, i) = c /\ \A j \in (i + 1)..Len(s) : CharAt(s, j) /= c
                ELSE 0
    IN  IF last = 0 THEN <<s>>
        ELSE <<SubSeq(s, 1, last - 1), SubSeq(s, last + 1, Len(s))>>

\* s.split(c, 1): split at the first separator only
str_split1(s, c) ==
    LET i == str_find(s, c)
    IN  IF i = 0 THEN <<s>>
        ELSE <<SubSeq(s, 1, i - 1), SubSeq(s, i + 1, Len(s))>>

RECURSIVE str_words(_, _)
\* s.split(): the maximal runs of non-whitespace characters, in order
\* (cur is the run being read)
str_words(s, cur) ==
    IF s = "" THEN (IF cur = "" THEN <<>> ELSE <<cur>>)
    ELSE IF IsSpace(CharAt(s, 1))
         THEN (IF cur = "" THEN <<>> ELSE <<cur>>) \o str_words(SubSeq(s, 2, Len(s)), "")
         ELSE str_words(SubSeq(s, 2, Len(s)), cur \o CharAt(s, 1))

\* t in s
str_contains(s, t) ==
    \E i \in 1..(Len(s) - Len(t) + 1) : SubSeq(s, i, i + Len(t) - 1) = t

RECURSIVE str_join(_, _)
\* sep.join(parts)
str_join(sep, parts) ==
    IF parts = <<>> THEN ""
    ELSE IF Len(parts) = 1 THEN parts[1]
    ELSE parts[1] \o sep \o str_join(sep, Tail(parts))

\* the elements of a sequence
Range(f) == {f[i] : i \in DOMAIN f}

(***************************************************************************)
(* src/pages/1_app.py: load_dictionary_from_text                           *)
(***************************************************************************)
\* line 8: the stripped, lowercased lines that are not blank
DictLines(dict_text) ==
    LET raw == str_split(dict_text, "\n")
        kept == SelectSeq(raw, LAMBDA l : str_strip(l) /= "")
    IN  [i \in 1..Len(kept) |-> str_lower(str_strip(kept[i]))]

PositiveTags == {"positive", "pos", "1"}

NegativeTags == {"negative", "neg", "0", "-1"}

\* lines 15-17: the term of a line holding a comma
LineWord(line) == str_strip(str_split1(line, ",")[1])

\* lines 15-17: the tag of a line holding a comma
LineSentiment(line) == str_strip(str_split1(line, ",")[2])

\* lines 14-25: what one line adds to the positive set
LinePositive(line) ==
    IF str_find(line, ",") /= 0
    THEN (IF LineSentiment(line) \in PositiveTags THEN {LineWord(line)} ELSE {})
    ELSE {line}

\* lines 14-25: what one line adds to the negative set
LineNegative(line) ==
    IF str_find(line, ",") /= 0
    THEN (IF LineSentiment(line) \notin PositiveTags /\ LineSentiment(line) \in NegativeTags
          THEN {LineWord(line)} ELSE {})
    ELSE {}

\* lines 6-27: the pair (positive_words, negative_words)
load_dictionary_from_text(dict_text) ==
    LET lines == DictLines(dict_text)
    IN  [positive |-> UNION {LinePositive(lines[i]) : i \in DOMAIN lines},
         negative |-> UNION {LineNegative(lines[i]) : i \in DOMAIN lines}]

(***************************************************************************)
(* pandas values and tables.  A cell is <<tag, payload>>: a str, NaN, an   *)
(* int, a bool, or a float held as the fraction <<num, den>> in lowest     *)
(* terms with den > 0.  A DataFrame is its column names in order and its   *)
(* rows in order, each row aligned with the columns.                       *)
(***************************************************************************)
PyStr(s) == <<"str", s>>

NaN == <<"nan", "">>

PyInt(n) == <<"int", n>>

PyBool(b) == <<"bool", b>>

RECURSIVE Gcd(_, _)
Gcd(a, b) == IF b = 0 THEN a ELSE Gcd(b, a % b)

Abs(n) == IF n < 0 THEN -n ELSE n

\* the float n / d, d > 0
PyFloat(n, d) == LET g == Gcd(Abs(n), d) IN <<"float", <<n \div g, d \div g>>>>

\* pd.isna(x)
isna(x) == x[1] = "nan"

\* df[name]: the values of a column, by row
Column(df, name) ==
    LET c == CHOOSE i \in 1..Len(df.columns) : df.columns[i] = name
    IN  [r \in 1..Len(df.rows) |-> df.rows[r][c]]

\* df[name] = vals: an existing column is overwritten in place, a new one is
\* appended after the last column
SetColumn(df, name, vals) ==
    IF \E i \in 1..Len(df.columns) : df.columns[i] = name
    THEN LET c == CHOOSE i \in 1..Len(df.columns) : df.columns[i] = name
         IN  [df EXCEPT !.rows = [r \in 1..Len(df.rows) |-> [df.rows[r] EXCEPT ![c] = vals[r]]]]
    ELSE [columns |-> Append(df.columns, name),
          rows |-> [r \in 1..Len(df.rows) |-> Append(df.rows[r], vals[r])]]

\* df.select_dtypes(include=['object']).columns.tolist(): read_csv gives a
\* column the object dtype when it holds a str (or the table has no rows)
TextColumns(df) ==
    SelectSeq(df.columns,
              LAMBDA name : df.rows = <<>> \/ \E r \in 1..Len(df.rows) : Column(df, name)[r][1] = "str")

(***************************************************************************)
(* src/pages/1_app.py: continuous_sentiment_score, process_sentiment_data  *)
(***************************************************************************)
\* a count of the words that hold a member of the set as a substring
CountContaining(words, word_set) ==
    Len(SelectSeq(words, LAMBDA w : \E t \in word_set : str_contains(w, t)))

\* lines 43-44: sum(1 for word in words if word in word_set)
CountIn(words, word_set) == Len(SelectSeq(words, LAMBDA w : w \in word_set))

\* the difference of the counts, not divided by their sum
difference_score(text, positive_words, negative_words) ==
    IF isna(text) \/ text[2] = "" THEN PyFloat(0, 1)
    ELSE LET words == str_words(str_lower(text[2]), "")
         IN  PyFloat(CountIn(words, positive_words) - CountIn(words, negative_words), 1)

\* lines 34-51
continuous_sentiment_score(text, positive_words, negative_words) ==
    IF isna(text) \/ text[2] = "" THEN PyFloat(0, 1)
    ELSE LET words == str_words(str_lower(text[2]), "")
             pos_count == CountIn(words, positive_words)
             neg_count == CountIn(words, negative_words)
             total_sentiment_words == pos_count + neg_count
         IN  IF words = <<>> THEN PyFloat(0, 1)
             ELSE IF total_sentiment_words = 0 THEN PyFloat(0, 1)
             ELSE PyFloat(pos_count - neg_count, total_sentiment_words)

\* the thresholds taken inclusive: x >= 0.1, x <= -0.1
inclusive_label(x) ==
    LET n == x[2][1]
        d == x[2][2]
    IN  IF 10 * n >= d THEN PyStr("Positive")
        ELSE IF 10 * n <= -d THEN PyStr("Negative")
        ELSE PyStr("Neutral")

\* line 65: the label of a score x = n/d; x > 0.1 iff 10 n > d
sentiment_label(x) ==
    LET n == x[2][1]
        d == x[2][2]
    IN  IF 10 * n > d THEN PyStr("Positive")
        ELSE IF 10 * n < -d THEN PyStr("Negative")
        ELSE PyStr("Neutral")

\* lines 53-68
process_sentiment_data(df, text_column, positive_words, negative_words) ==
    LET texts == Column(df, text_column)
        scored == SetColumn(df, "sentiment_score",
                      [r \in 1..Len(df.rows) |->
                          continuous_sentiment_score(texts[r], positive_words, negative_words)])
        scores == Column(scored, "sentiment_score")
    IN  SetColumn(scored, "sentiment_label",
                  [r \in 1..Len(df.rows) |-> sentiment_label(scores[r])])

(***************************************************************************)
(* src/streamlit_app.py: classify_text, process_dataframe                  *)
(***************************************************************************)
DEFAULT_DICTIONARIES ==
    [urgency_marketing |->
        {"limited", "limited time", "limited run", "limited edition", "order now",
         "last chance", "hurry", "while supplies last", "before they're gone",
         "selling out", "selling fast", "act now", "don't wait", "today only",
         "expires soon", "final hours", "almost gone"},
     exclusive_marketing |->
        {"exclusive", "exclusively", "exclusive offer", "exclusive deal",
         "members only", "vip", "special access", "invitation only",
         "premium", "privileged", "limited access", "select customers",
         "insider", "private sale", "early access"}]

RECURSIVE SetToSeq(_)
SetToSeq(S) ==
    IF S = {} THEN <<>>
    ELSE LET x == CHOOSE x \in S : TRUE IN <<x>> \o SetToSeq(S \ {x})

Reverse(q) == [i \in 1..Len(q) |-> q[Len(q) + 1 - i]]

\* line 39, `for term in terms`: the order in which a Python set yields its
\* members is fixed within a run and unspecified across runs (str hashing is
\* seeded per process); hash_seed selects one of two orders
IterationOrder(terms, hash_seed) ==
    IF hash_seed = 0 THEN SetToSeq(terms) ELSE Reverse(SetToSeq(terms))

\* the term compared as stored, without term.lower()
MatchesAsStored(text_lower, terms, hash_seed) ==
    SelectSeq(IterationOrder(terms, hash_seed), LAMBDA term : str_contains(text_lower, term))

\* lines 38-41: the matches of one dictionary, in iteration order
Matches(text_lower, terms, hash_seed) ==
    SelectSeq(IterationOrder(terms, hash_seed),
              LAMBDA term : str_contains(text_lower, str_lower(term)))

\* present taken as "more than one match"
classify_text_present_gt1(text, dictionaries, hash_seed) ==
    IF isna(text) THEN [d \in {} |-> [count |-> 0, matches |-> <<>>, present |-> FALSE]]
    ELSE LET text_lower == str_lower(text[2])
         IN  [d \in DOMAIN dictionaries |->
                LET matches == Matches(text_lower, dictionaries[d], hash_seed)
                IN  [count |-> Len(matches), matches |-> matches, present |-> Len(matches) > 1]]

\* lines 29-49: the empty dict for a missing text, else one record per name
classify_text(text, dictionaries, hash_seed) ==
    IF isna(text) THEN [d \in {} |-> [count |-> 0, matches |-> <<>>, present |-> FALSE]]
    ELSE LET text_lower == str_lower(text[2])
         IN  [d \in DOMAIN dictionaries |->
                LET matches == Matches(text_lower, dictionaries[d], hash_seed)
                IN  [count |-> Len(matches), matches |-> matches, present |-> Len(matches) > 0]]

\* lines 62, 65, 68: x.get(dict_name, {}).get(key, default)
GetCount(x, d) == IF d \in DOMAIN x THEN x[d].count ELSE 0

\* .get('present', True): the wrong default
GetPresentDefaultTrue(x, d) == IF d \in DOMAIN x THEN x[d].present ELSE TRUE

GetPresent(x, d) == IF d \in DOMAIN x THEN x[d].present ELSE FALSE

GetMatches(x, d) == IF d \in DOMAIN x THEN x[d].matches ELSE <<>>

RECURSIVE AddResultColumns(_, _, _)
\* lines 60-69: three columns per dictionary name, in the order of names
AddResultColumns(df_results, classifications, names) ==
    IF names = <<>> THEN df_results
    ELSE LET d == Head(names)
             rows == 1..Len(df_results.rows)
             c1 == SetColumn(df_results, d \o "_count",
                             [r \in rows |-> PyInt(GetCount(classifications[r], d))])
             c2 == SetColumn(c1, d \o "_present",
                             [r \in rows |-> PyBool(GetPresent(classifications[r], d))])
             c3 == SetColumn(c2, d \o "_matches",
                             [r \in rows |-> PyStr(str_join(", ", GetMatches(classifications[r], d)))])
         IN  AddResultColumns(c3, classifications, Tail(names))

\* lines 51-71; key_order is dictionaries.keys() in insertion order
process_dataframe(df, text_column, dictionaries, key_order, hash_seed) ==
    LET texts == Column(df, text_column)
        classifications == [r \in 1..Len(df.rows) |->
                               classify_text(texts[r], dictionaries, hash_seed)]
    IN  AddResultColumns(df, classifications, key_order)

(***************************************************************************)
(* src/streamlit_app.py: main, the dictionary editor of the sidebar        *)
(***************************************************************************)
\* lines 108 and 118: set([term.strip() for term in text.split('\n') if term.strip()])
ParseTerms(text) ==
    {str_strip(l) : l \in {l \in Range(str_split(text, "\n")) : str_strip(l) /= ""}}

\* DEFAULT_DICTIONARIES.keys(), in the order of the literal
DEFAULT_NAMES == <<"urgency_marketing", "exclusive_marketing">>

\* lines 109 and 119: dictionaries[name] = terms
SetDictionary(dicts, name, terms) ==
    [n \in DOMAIN dicts \cup {name} |-> IF n = name THEN terms ELSE dicts[n]]

\* a write through an alias: the global takes what was written
DefaultsWrittenThrough(defaults, written) == written

\* lines 82 and 125 bind the session to DEFAULT_DICTIONARIES.copy(), a dict of
\* its own, and lines 109 and 119 assign a new set to a key of that dict (no
\* set is changed in place): the global is what it was after such a write
DefaultsAfterWrite(defaults, written) == defaults

\* a dict keeps its keys in insertion order; assigning to a key it already
\* holds leaves the order as it is
SetName(names, name) == IF name \in Range(names) THEN names ELSE Append(names, name)

\* the page without the branch of lines 224-225
RenderErrorUnchecked(dicts, names, file, table, stored, res) ==
    IF file = "none" THEN ""
    ELSE IF file = "malformed" THEN "Error reading file"
    ELSE IF stored /\ \E i \in 1..Len(names) : (names[i] \o "_present") \notin Range(res.columns)
         THEN "Error reading file"
    ELSE ""

\* lines 142-228: the error the page shows after a run of the script
\* ("" when it shows none)
RenderError(dicts, names, file, table, stored, res) ==
    IF file = "none" THEN ""
    ELSE IF file = "malformed" THEN "Error reading file"
    ELSE IF TextColumns(table) = <<>> THEN "No text columns found"
    ELSE IF stored /\ \E i \in 1..Len(names) : (names[i] \o "_present") \notin Range(res.columns)
         THEN "Error reading file"
    ELSE ""

(***************************************************************************)
(* Bounds and the inputs drawn within them.                                *)
(***************************************************************************)
\* lines of a sentiment dictionary text
MaxLines == 2

\* lines of a classifier term text
MaxTermLines == 1

\* rows of an uploaded table
MaxRows == 2

\* the sequences of at most n members of S
SeqsUpTo(S, n) == UNION {[1..k -> S] : k \in 0..n}

DictLineChoices ==
    {"good,positive", "great,pos", "fine,1", "awful,negative", "bad,neg", "poor,0",
     "good,-1", "meh", "x,maybe", " Nice , POS ", ",positive", "a,b,neg", "",
     "  ", "So So", "ok,neg\r"}

DictTexts == {str_join("\n", q) : q \in SeqsUpTo(DictLineChoices, MaxLines)}

TermLineChoices == {" VIP ", ""}

TermTexts == {str_join("\n", q) : q \in SeqsUpTo(TermLineChoices, MaxTermLines)}

NewNameChoices == {"", "x", "urgency_marketing"}

SentimentWords == {"good", "bad"}

RECURSIVE Repeat(_, _)
Repeat(s, n) == IF n = 0 THEN "" ELSE s \o Repeat(s, n - 1)

SentimentCells ==
    {NaN, PyStr(""), PyStr("  \n"), PyStr("good"), PyStr("GOOD  Bad"), PyStr("goodness"),
     PyStr("good bad bad"),
     PyStr(Repeat("good ", 6) \o Repeat("bad ", 5)),
     PyStr(Repeat("good ", 11) \o Repeat("bad ", 9))}

ClassifierCells ==
    {NaN, PyStr(""), PyStr("Exclusive deal for VIP members"), PyStr("vip"),
     PyStr("Regular product description")}

\* a table of two columns: a column `other` before the column `text`
TwoColumnTable(other, others, text, cells) ==
    [columns |-> <<other, text>>,
     rows |-> [r \in 1..Len(cells) |-> <<others[r], cells[r]>>]]

RowNumbers(n) == [r \in 1..n |-> PyInt(r)]

OldLabels(n) == [r \in 1..n |-> PyStr("good")]

OldCounts(n) == [r \in 1..n |-> PyInt(7)]

SentimentTables ==
    {TwoColumnTable("id", RowNumbers(Len(q)), "text", q) :
         q \in SeqsUpTo(SentimentCells, MaxRows)}
    \cup {TwoColumnTable("sentiment_label", OldLabels(Len(q)), "text", q) :
              q \in SeqsUpTo(SentimentCells, MaxRows)}

ClassifierTables ==
    {TwoColumnTable("ID", RowNumbers(Len(q)), "Statement", q) :
         q \in SeqsUpTo(ClassifierCells, MaxRows)}
    \cup {TwoColumnTable("x_count", OldCounts(Len(q)), "Statement", q) :
              q \in SeqsUpTo(ClassifierCells, MaxRows)}

ClassifierTerms == {"vip", "VIP", "deal"}

\* dictionary configurations handed to process_dataframe: <<names, dictionaries>>
ClassifierConfigs ==
    {<<DEFAULT_NAMES, DEFAULT_DICTIONARIES>>}
    \cup {<< <<"x">>, [n \in {"x"} |-> S] >> : S \in SUBSET ClassifierTerms}
    \cup {<< <<"x", "y">>, [n \in {"x", "y"} |-> IF n = "x" THEN S[1] ELSE S[2]] >> :
              S \in (SUBSET ClassifierTerms) \X (SUBSET ClassifierTerms)}

\* lines 234-241 (the sample of the page) with a row whose text is missing
SampleTable ==
    [columns |-> <<"ID", "Statement">>,
     rows |-> << <<PyInt(1), PyStr("Limited time offer - act now!")>>,
                 <<PyInt(2), PyStr("Exclusive deal for VIP members only")>>,
                 <<PyInt(3), NaN>> >>]

NumbersTable == [columns |-> <<"ID">>, rows |-> << <<PyInt(1)>>, <<PyInt(2)>> >>]

EmptyTable == [columns |-> <<>>, rows |-> <<>>]

\* what the uploader of the classifier page can hold: <<kind, parsed table>>
SessionUploads ==
    {<<"none", EmptyTable>>, <<"malformed", EmptyTable>>, <<"csv", NumbersTable>>,
     <<"csv", SampleTable>>}

(***************************************************************************)
(* State.                                                                  *)
(***************************************************************************)
VARIABLES
    entry,           \* what runs: "load" and "score" (pages/1_app.py), "classify"
                     \* and "session" (streamlit_app.py)
    called,          \* the function of "load", "score" or "classify" has run
    dict_text,       \* the dictionary text given to load_dictionary_from_text
    positive_words,
    negative_words,
    df,              \* the table read from the uploaded file
    selected_column,
    result_df,       \* what process_sentiment_data returned
    default_dictionaries, \* the module global DEFAULT_DICTIONARIES
    dictionaries,    \* st.session_state.dictionaries: name -> set of terms
    dict_names,      \* its keys, in insertion order
    uploaded_file,   \* "none", "malformed" or "csv"
    has_results,     \* 'results' in st.session_state
    results,         \* st.session_state.results
    error            \* the st.error message of the last run, "" for none

vars == <<entry, called, dict_text, positive_words, negative_words, df, selected_column,
          result_df, default_dictionaries, dictionaries, dict_names, uploaded_file,
          has_results, results, error>>

sentiment_vars == <<dict_text, positive_words, negative_words, result_df>>

session_vars ==
    <<default_dictionaries, dictionaries, dict_names, uploaded_file, has_results, results, error>>

\* pages/1_app.py: a dictionary text is in the sidebar, not parsed yet
InitLoad ==
    /\ entry = "load"
    /\ called = FALSE
    /\ dict_text \in DictTexts
    /\ positive_words = {}
    /\ negative_words = {}
    /\ df = EmptyTable
    /\ selected_column = ""
    /\ result_df = EmptyTable
    /\ default_dictionaries = DEFAULT_DICTIONARIES
    /\ dictionaries = DEFAULT_DICTIONARIES
    /\ dict_names = DEFAULT_NAMES
    /\ uploaded_file = "none"
    /\ has_results = FALSE
    /\ results = EmptyTable
    /\ error = ""

\* pages/1_app.py: word sets load_dictionary_from_text can return, a table
\* read from the uploaded file and a text column chosen, not analysed yet
InitScore ==
    /\ entry = "score"
    /\ called = FALSE
    /\ dict_text = ""
    /\ positive_words \in SUBSET SentimentWords
    /\ negative_words \in SUBSET SentimentWords
    /\ df \in SentimentTables
    /\ selected_column \in Range(TextColumns(df))
    /\ result_df = EmptyTable
    /\ default_dictionaries = DEFAULT_DICTIONARIES
    /\ dictionaries = DEFAULT_DICTIONARIES
    /\ dict_names = DEFAULT_NAMES
    /\ uploaded_file = "none"
    /\ has_results = FALSE
    /\ results = EmptyTable
    /\ error = ""

\* streamlit_app.py: a dictionary configuration, a table and a text column,
\* not classified yet
InitClassify ==
    /\ entry = "classify"
    /\ called = FALSE
    /\ dict_text = ""
    /\ positive_words = {}
    /\ negative_words = {}
    /\ df \in ClassifierTables
    /\ selected_column \in Range(TextColumns(df))
    /\ result_df = EmptyTable
    /\ default_dictionaries = DEFAULT_DICTIONARIES
    /\ \E c \in ClassifierConfigs : dict_names = c[1] /\ dictionaries = c[2]
    /\ uploaded_file = "csv"
    /\ has_results = FALSE
    /\ results = EmptyTable
    /\ error = ""

\* streamlit_app.py lines 81-82: a new session of the classifier page
InitSession ==
    /\ entry = "session"
    /\ called = FALSE
    /\ dict_text = ""
    /\ positive_words = {}
    /\ negative_words = {}
    /\ df = EmptyTable
    /\ selected_column = ""
    /\ result_df = EmptyTable
    /\ default_dictionaries = DEFAULT_DICTIONARIES
    /\ dictionaries = DEFAULT_DICTIONARIES
    /\ dict_names = DEFAULT_NAMES
    /\ uploaded_file = "none"
    /\ has_results = FALSE
    /\ results = EmptyTable
    /\ error = ""

Init == InitLoad \/ InitScore \/ InitClassify \/ InitSession

(***************************************************************************)
(* Actions.                                                                *)
(***************************************************************************)
\* pages/1_app.py lines 141-152 (and 130-139): the text of the sidebar is parsed
LoadDictionary ==
    /\ entry = "load"
    /\ LET loaded == load_dictionary_from_text(dict_text)
       IN  /\ positive_words' = loaded.positive
           /\ negative_words' = loaded.negative
    /\ called' = TRUE
    /\ UNCHANGED <<entry, dict_text, df, selected_column, result_df>>
    /\ UNCHANGED session_vars

\* pages/1_app.py lines 165 and 184-187: with a word in the dictionary, the
\* analysis of the table with the chosen text column
AnalyzeSentiment ==
    /\ entry = "score"
    /\ positive_words /= {} \/ negative_words /= {}
    /\ result_df' = process_sentiment_data(df, selected_column, positive_words, negative_words)
    /\ called' = TRUE
    /\ UNCHANGED <<entry, dict_text, positive_words, negative_words, df, selected_column>>
    /\ UNCHANGED session_vars

\* streamlit_app.py lines 51-71: process_dataframe on the table
ProcessDataframe ==
    /\ entry = "classify"
    /\ \E hash_seed \in {0, 1} :
          results' = process_dataframe(df, selected_column, dictionaries, dict_names, hash_seed)
    /\ called' = TRUE
    /\ has_results' = TRUE
    /\ UNCHANGED <<entry, df, selected_column, default_dictionaries, dictionaries, dict_names,
                   uploaded_file, error>>
    /\ UNCHANGED sentiment_vars

\* streamlit_app.py lines 107-110, then the rest of the run
UpdateDictionary ==
    /\ entry = "session"
    /\ \E selected_dict \in Range(dict_names) :
          \E edited_terms \in TermTexts :
              dictionaries' = SetDictionary(dictionaries, selected_dict, ParseTerms(edited_terms))
    /\ default_dictionaries' = DefaultsAfterWrite(default_dictionaries, dictionaries')
    /\ error' = RenderError(dictionaries', dict_names, uploaded_file, df, has_results, results)
    /\ UNCHANGED <<entry, called, df, selected_column, dict_names, uploaded_file, has_results, results>>
    /\ UNCHANGED sentiment_vars

\* streamlit_app.py lines 117-121, then the rerun
AddDictionary ==
    /\ entry = "session"
    /\ \E new_dict_name \in NewNameChoices :
          \E new_dict_terms \in TermTexts :
              /\ new_dict_name /= ""
              /\ new_dict_terms /= ""
              /\ dictionaries' = SetDictionary(dictionaries, new_dict_name, ParseTerms(new_dict_terms))
              /\ dict_names' = SetName(dict_names, new_dict_name)
    /\ default_dictionaries' = DefaultsAfterWrite(default_dictionaries, dictionaries')
    /\ error' = RenderError(dictionaries', dict_names', uploaded_file, df, has_results, results)
    /\ UNCHANGED <<entry, called, df, selected_column, uploaded_file, has_results, results>>
    /\ UNCHANGED sentiment_vars

\* streamlit_app.py lines 124-127, then the rerun
ResetToDefaults ==
    /\ entry = "session"
    /\ dictionaries' = default_dictionaries
    /\ dict_names' = DEFAULT_NAMES
    /\ error' = RenderError(dictionaries', dict_names', uploaded_file, df, has_results, results)
    /\ UNCHANGED <<entry, called, df, selected_column, default_dictionaries, uploaded_file,
                   has_results, results>>
    /\ UNCHANGED sentiment_vars

\* streamlit_app.py lines 136-160 and 175-228: a file is put in the uploader
\* (or taken out of it) and the script runs
UploadDataset ==
    /\ entry = "session"
    /\ \E upload \in SessionUploads :
          /\ uploaded_file' = upload[1]
          /\ df' = upload[2]
    /\ error' = RenderError(dictionaries, dict_names, uploaded_file', df', has_results, results)
    /\ UNCHANGED <<entry, called, selected_column, default_dictionaries, dictionaries, dict_names,
                   has_results, results>>
    /\ UNCHANGED sentiment_vars

\* streamlit_app.py lines 163-173, then lines 175-222
ClassifyText ==
    /\ entry = "session"
    /\ uploaded_file = "csv"
    /\ TextColumns(df) /= <<>>
    /\ \E column \in Range(TextColumns(df)) :
          \E hash_seed \in {0, 1} :
              /\ selected_column' = column
              /\ results' = process_dataframe(df, column, dictionaries, dict_names, hash_seed)
    /\ has_results' = TRUE
    /\ error' = RenderError(dictionaries, dict_names, uploaded_file, df, has_results', results')
    /\ UNCHANGED <<entry, called, df, default_dictionaries, dictionaries, dict_names, uploaded_file>>
    /\ UNCHANGED sentiment_vars

Next ==
    \/ LoadDictionary
    \/ AnalyzeSentiment
    \/ ProcessDataframe
    \/ UpdateDictionary
    \/ AddDictionary
    \/ ResetToDefaults
    \/ UploadDataset
    \/ ClassifyText

Spec == Init /\ [][Next]_vars

(***************************************************************************)
(* Properties.                                                             *)
(***************************************************************************)
Cell(table, r, name) == Column(table, name)[r]

HasColumn(table, name) == name \in Range(table.columns)

\* the whitespace-separated tokens of a lowercased text
Tokens(s) == str_words(str_lower(s), "")

Scored == entry = "score" /\ called

Classified == entry = "classify" /\ called

\* the text, the score (as <<num, den>>) and the label of row r of an analysis
TextOf(r) == Cell(df, r, selected_column)

ScoreOf(r) == Cell(result_df, r, "sentiment_score")[2]

LabelOf(r) == Cell(result_df, r, "sentiment_label")

ScoredRows == 1..Len(result_df.rows)

\* C1: every score is a float in [-1, 1], and it is exactly 0 when the text is
\* missing or empty or none of its tokens is in the positive or the negative set
C1_ScoreInRange ==
    Scored =>
        \A r \in ScoredRows :
            LET x == ScoreOf(r)
                t == TextOf(r)
            IN  /\ Cell(result_df, r, "sentiment_score")[1] = "float"
                /\ x[2] > 0
                /\ -x[2] <= x[1]
                /\ x[1] <= x[2]
                /\ (isna(t) \/ t[2] = ""
                    \/ \A i \in DOMAIN Tokens(t[2]) :
                           Tokens(t[2])[i] \notin positive_words \cup negative_words)
                   => x[1] = 0

\* an analysis with a word in both sets, a missing text scored 0 and a text
\* scored off 0
C1_Witness ==
    /\ Scored
    /\ positive_words \cap negative_words /= {}
    /\ \E r \in ScoredRows : isna(TextOf(r)) /\ ScoreOf(r) = <<0, 1>>
    /\ \E r \in ScoredRows : ScoreOf(r)[1] /= 0

\* C2: for a non-empty text the score is (posCount - negCount) / (posCount + negCount),
\* or 0 when the sum is 0, the counts being those of the tokens equal to a
\* member of the set, one per occurrence
C2_ScoreFormula ==
    Scored =>
        \A r \in ScoredRows :
            LET t == TextOf(r)
                x == ScoreOf(r)
            IN  (~isna(t) /\ t[2] /= "") =>
                    LET toks == Tokens(t[2])
                        posCount == Cardinality({i \in DOMAIN toks : toks[i] \in positive_words})
                        negCount == Cardinality({i \in DOMAIN toks : toks[i] \in negative_words})
                    IN  IF posCount + negCount > 0
                        THEN x[1] * (posCount + negCount) = (posCount - negCount) * x[2]
                        ELSE x = <<0, 1>>

\* "good bad bad" scored -1/3 and "goodness", which only holds "good" as a
\* substring, scored 0
C2_Witness ==
    /\ Scored
    /\ positive_words = {"good"}
    /\ negative_words = {"bad"}
    /\ \E r \in ScoredRows : TextOf(r) = PyStr("good bad bad") /\ ScoreOf(r) = <<-1, 3>>
    /\ \E r \in ScoredRows : TextOf(r) = PyStr("goodness") /\ ScoreOf(r) = <<0, 1>>

\* C3: the label is Positive iff score > 0.1, Negative iff score < -0.1, Neutral
\* otherwise; a text with a positive token and no negative token scores 1 and is
\* Positive, one with a negative token and no positive token scores -1 and is
\* Negative
C3_Labels ==
    Scored =>
        \A r \in ScoredRows :
            LET x == ScoreOf(r)
                t == TextOf(r)
                toks == IF isna(t) THEN <<>> ELSE Tokens(t[2])
                anyPos == \E i \in DOMAIN toks : toks[i] \in positive_words
                anyNeg == \E i \in DOMAIN toks : toks[i] \in negative_words
            IN  /\ LabelOf(r) = PyStr("Positive") <=> 10 * x[1] > x[2]
                /\ LabelOf(r) = PyStr("Negative") <=> 10 * x[1] < -x[2]
                /\ LabelOf(r) = PyStr("Neutral") <=> (10 * x[1] <= x[2] /\ 10 * x[1] >= -x[2])
                /\ (anyPos /\ ~anyNeg) => (x = <<1, 1>> /\ LabelOf(r) = PyStr("Positive"))
                /\ (anyNeg /\ ~anyPos) => (x = <<-1, 1>> /\ LabelOf(r) = PyStr("Negative"))

\* a score of exactly 0.1 labelled Neutral beside a score of 1 labelled Positive
C3_Witness ==
    /\ Scored
    /\ \E r \in ScoredRows : ScoreOf(r) = <<1, 10>> /\ LabelOf(r) = PyStr("Neutral")
    /\ \E r \in ScoredRows : ScoreOf(r) = <<1, 1>> /\ LabelOf(r) = PyStr("Positive")

\* the names whose result columns a stored results table is read for: all of
\* them after process_dataframe, those the table holds in a session
ResultNames ==
    {d \in Range(dict_names) : entry = "classify" \/ HasColumn(results, d \o "_count")}

\* C4: a row whose text is missing gets score 0.0 and label Neutral from the
\* scorer, and count 0, present false and an empty matches string for every
\* dictionary from the classifier
C4_MissingText ==
    /\ Scored =>
          \A r \in ScoredRows :
              isna(TextOf(r)) => (ScoreOf(r) = <<0, 1>> /\ LabelOf(r) = PyStr("Neutral"))
    /\ (entry \in {"classify", "session"} /\ has_results) =>
          \A r \in 1..Len(results.rows) :
              isna(Cell(results, r, selected_column)) =>
                  \A d \in ResultNames :
                      /\ Cell(results, r, d \o "_count") = PyInt(0)
                      /\ Cell(results, r, d \o "_present") = PyBool(FALSE)
                      /\ Cell(results, r, d \o "_matches") = PyStr("")

\* a classification under two dictionaries of a table with a missing text,
\* whose row holds 0, false and "" for both
C4_Witness ==
    /\ Classified
    /\ Len(dict_names) = 2
    /\ \E r \in 1..Len(results.rows) :
          /\ isna(Cell(df, r, selected_column))
          /\ \A d \in Range(dict_names) :
                /\ Cell(results, r, d \o "_count") = PyInt(0)
                /\ Cell(results, r, d \o "_present") = PyBool(FALSE)
                /\ Cell(results, r, d \o "_matches") = PyStr("")

\* the lines load_dictionary_from_text reads: trimmed, lowercased, not blank
C5_Lines ==
    {str_lower(str_strip(l)) : l \in {l \in Range(str_split(dict_text, "\n")) : str_strip(l) /= ""}}

C5_HasComma(line) == \E i \in 1..Len(line) : CharAt(line, i) = ","

C5_FirstComma(line) ==
    CHOOSE i \in 1..Len(line) : CharAt(line, i) = "," /\ \A j \in 1..(i - 1) : CharAt(line, j) /= ","

C5_Term(line) == str_strip(SubSeq(line, 1, C5_FirstComma(line) - 1))

C5_Tag(line) == str_strip(SubSeq(line, C5_FirstComma(line) + 1, Len(line)))

\* C5: a line with a comma is split at its first comma into term and tag; the
\* term goes to the positive set for a tag in {positive, pos, 1}, to the negative
\* set for a tag in {negative, neg, 0, -1}, to neither for any other tag; a line
\* with no comma goes whole to the positive set; blank lines give nothing
C5_LineRule ==
    (entry = "load" /\ called) =>
        /\ positive_words =
              {C5_Term(l) : l \in {l \in C5_Lines :
                                       C5_HasComma(l) /\ C5_Tag(l) \in {"positive", "pos", "1"}}}
              \cup {l \in C5_Lines : ~C5_HasComma(l)}
        /\ negative_words =
              {C5_Term(l) : l \in {l \in C5_Lines :
                                       C5_HasComma(l) /\ C5_Tag(l) \in {"negative", "neg", "0", "-1"}}}

\* a text whose first line holds two commas and whose second is padded and in
\* capitals
C5_Witness ==
    /\ entry = "load"
    /\ called
    /\ dict_text = "a,b,neg\n Nice , POS "
    /\ positive_words = {"nice"}
    /\ negative_words = {}

NormalisedTerm(t) == t /= "" /\ str_strip(t) = t /\ str_lower(t) = t

\* C6: every term of both sets of a load and of every term set of the session
\* dictionaries is non-empty, trimmed and lowercased
C6_TermsNormalised ==
    /\ (entry = "load" /\ called) =>
          \A t \in positive_words \cup negative_words : NormalisedTerm(t)
    /\ entry = "session" =>
          \A d \in DOMAIN dictionaries : \A t \in dictionaries[d] : NormalisedTerm(t)

\* C7: the positive and the negative set of one load are disjoint
C7_Disjoint == (entry = "load" /\ called) => positive_words \cap negative_words = {}

\* C8: in every row and for every dictionary, present is true iff count > 0
C8_PresentIffCount ==
    (entry \in {"classify", "session"} /\ has_results) =>
        \A r \in 1..Len(results.rows) :
            \A d \in ResultNames :
                /\ Cell(results, r, d \o "_count")[1] = "int"
                /\ Cell(results, r, d \o "_present") = PyBool(Cell(results, r, d \o "_count")[2] > 0)

\* a classification with a missing text, a text with a match and a text with none
C8_Witness ==
    /\ Classified
    /\ \E d \in Range(dict_names) :
          /\ \E r \in 1..Len(results.rows) :
                isna(Cell(df, r, selected_column)) /\ Cell(results, r, d \o "_present") = PyBool(FALSE)
          /\ \E r \in 1..Len(results.rows) :
                Cell(results, r, d \o "_count")[2] > 0 /\ Cell(results, r, d \o "_present") = PyBool(TRUE)

\* the sequences that list every member of S once
Orderings(S) == {q \in [1..Cardinality(S) -> S] : Range(q) = S}

\* C9: for a text that is not missing, the matches of a dictionary are its terms
\* whose lowercased form is a substring of the lowercased text, each once and as
\* stored, and count is their number, whatever the other dictionaries hold
C9_Matches ==
    Classified =>
        \A r \in 1..Len(df.rows) :
            LET t == Cell(df, r, selected_column)
            IN  ~isna(t) =>
                    \A d \in Range(dict_names) :
                        LET matched == {term \in dictionaries[d] :
                                           str_contains(str_lower(t[2]), str_lower(term))}
                        IN  /\ Cell(results, r, d \o "_count") = PyInt(Cardinality(matched))
                            /\ \E q \in Orderings(matched) :
                                  Cell(results, r, d \o "_matches") = PyStr(str_join(", ", q))

\* dictionary {"vip"} and "Exclusive deal for VIP members": count 1, present, "vip"
C9_Witness ==
    /\ Classified
    /\ dict_names = <<"x">>
    /\ dictionaries["x"] = {"vip"}
    /\ \E r \in 1..Len(df.rows) :
          /\ Cell(df, r, selected_column) = PyStr("Exclusive deal for VIP members")
          /\ Cell(results, r, "x_count") = PyInt(1)
          /\ Cell(results, r, "x_present") = PyBool(TRUE)
          /\ Cell(results, r, "x_matches") = PyStr("vip")

\* the output keeps the rows and, at their places, the columns and values of the input
KeepsInput(input, output) ==
    /\ Len(output.rows) = Len(input.rows)
    /\ Len(output.columns) >= Len(input.columns)
    /\ \A c \in 1..Len(input.columns) :
          /\ output.columns[c] = input.columns[c]
          /\ \A r \in 1..Len(input.rows) : output.rows[r][c] = input.rows[r][c]

\* C10: the table returned by process_sentiment_data and by process_dataframe
\* has the rows of the input in order and every original column with its
\* original values, before the derived columns
C10_OriginalColumnsKept ==
    /\ Scored => KeepsInput(df, result_df)
    /\ Classified => KeepsInput(df, results)

\* a step of Reset to Defaults
ResetStep == ResetToDefaults

\* C11: a Reset to Defaults, after whatever updates and additions, leaves the
\* store at exactly urgency_marketing and exclusive_marketing with their
\* built-in terms; no step alters DEFAULT_DICTIONARIES; no step other than a
\* reset takes a name out of the store
C11_ResetRestores ==
    [][/\ default_dictionaries' = DEFAULT_DICTIONARIES
       /\ ResetStep =>
             /\ DOMAIN dictionaries' = {"urgency_marketing", "exclusive_marketing"}
             /\ dictionaries' = DEFAULT_DICTIONARIES
             /\ dict_names' = <<"urgency_marketing", "exclusive_marketing">>
       /\ ~ResetStep => DOMAIN dictionaries \subseteq DOMAIN dictionaries']_vars

\* a store back at the built-ins while the stored results still show a
\* classification made with urgency_marketing replaced by {"VIP"} and a
\* dictionary x added
C11_Witness ==
    /\ entry = "session"
    /\ has_results
    /\ HasColumn(results, "x_count")
    /\ \E r \in 1..Len(results.rows) : Cell(results, r, "urgency_marketing_matches") = PyStr("VIP")
    /\ dictionaries = DEFAULT_DICTIONARIES
    /\ dict_names = DEFAULT_NAMES
    /\ default_dictionaries = DEFAULT_DICTIONARIES

\* pd.read_csv raises on the uploaded file
LoadFails(file) == file = "malformed"

\* the uploaded file parses and holds no column of strings
NoTextColumn(file, table) == file = "csv" /\ TextColumns(table) = <<>>

\* C12: a run of the classifier page whose uploaded file fails to load, or
\* holds no string column, shows the error of that case, stores no new
\* results and keeps the stored ones, and the run that takes the file in
\* keeps the dictionary store; the outcome is always one of the page's two
\* st.error messages
C12_FailedLoad ==
    [][(entry = "session" /\ (LoadFails(uploaded_file') \/ NoTextColumn(uploaded_file', df'))) =>
          /\ LoadFails(uploaded_file') => error' = "Error reading file"
          /\ NoTextColumn(uploaded_file', df') => error' = "No text columns found"
          /\ has_results' = has_results
          /\ results' = results
          /\ (uploaded_file' /= uploaded_file \/ df' /= df) =>
                (dictionaries' = dictionaries /\ dict_names' = dict_names)]_vars

\* a malformed upload met by a session that holds results and an edited store
C12_Witness ==
    /\ entry = "session"
    /\ LoadFails(uploaded_file)
    /\ error = "Error reading file"
    /\ has_results
    /\ HasColumn(results, "x_present")
    /\ dictionaries /= DEFAULT_DICTIONARIES

\* C13: whenever the session holds a results table, the table has the count,
\* present and matches columns of every dictionary name of the store
C13_ResultsCoverStore ==
    (entry = "session" /\ has_results) =>
        \A i \in 1..Len(dict_names) :
            /\ HasColumn(results, dict_names[i] \o "_count")
            /\ HasColumn(results, dict_names[i] \o "_present")
            /\ HasColumn(results, dict_names[i] \o "_matches")

====
